---- MODULE Spec2Model ----
(***************************************************************************)
(* A model of the version manager (package gvm): the resolution of remote  *)
(* releases and installed versions against a semantic-version constraint,  *)
(* the selection of the latest version, and the download of a release.     *)
(*                                                                         *)
(* Go strings are sequences of one-character strings, so that the          *)
(* conversions the code applies (strings.ToLower, strings.TrimLeft,        *)
(* path.Join, semver parsing) are computed character by character.         *)
(***************************************************************************)
EXTENDS Integers, Sequences, FiniteSets, TLC

(***************************************************************************)
(* Bounds of the model.                                                    *)
(***************************************************************************)
\* the longest list of releases the release lister returns
MaxReleases == 2
\* the largest number of keys of a map handed to SortMapKeys directly
MaxKeys == 3
\* the largest number of entries of the releases directory
MaxEntries == 3

(***************************************************************************)
(* Strings.                                                                *)
(***************************************************************************)
\* the characters of the model in byte order (Go compares strings bytewise)
ByteOrder ==
  <<"!", "+", "-", ".", "/", "0", "1", "2", "3", "4", "5", "6", "7", "8", "9",
    ":", "<", "=", ">",
    "A", "B", "C", "D", "E", "F", "G", "H", "I", "J", "K", "L", "M", "N", "O",
    "P", "Q", "R", "S", "T", "U", "V", "W", "X", "Y", "Z", "^",
    "a", "b", "c", "d", "e", "f", "g", "h", "i", "j", "k", "l", "m", "n", "o",
    "p", "q", "r", "s", "t", "u", "v", "w", "x", "y", "z", "~">>

Chars == {ByteOrder[i] : i \in 1..Len(ByteOrder)}

\* the position of each character in the byte order
ByteOf == [c \in Chars |-> CHOOSE i \in 1..Len(ByteOrder) : ByteOrder[i] = c]

Byte(c) == ByteOf[c]

Digits == {"0", "1", "2", "3", "4", "5", "6", "7", "8", "9"}

UpperCase == {c \in Chars : ByteOf[c] >= ByteOf["A"] /\ ByteOf[c] <= ByteOf["Z"]}

LowerCase == {c \in Chars : ByteOf[c] >= ByteOf["a"] /\ ByteOf[c] <= ByteOf["z"]}

\* [0-9A-Za-z\-]
AlnumDash == Digits \cup UpperCase \cup LowerCase \cup {"-"}

\* the lower-case form of each character
LowerOf ==
  [c \in Chars |->
     IF c \in UpperCase THEN ByteOrder[ByteOf[c] + (ByteOf["a"] - ByteOf["A"])]
     ELSE c]

\* strings.ToLower on the ASCII characters of the model
ToLower(s) == [i \in 1..Len(s) |-> LowerOf[s[i]]]

\* Go's s < o on strings: bytewise lexicographic
RECURSIVE StrLess(_, _)
StrLess(s, o) ==
  IF o = <<>> THEN FALSE
  ELSE IF s = <<>> THEN TRUE
  ELSE IF Head(s) # Head(o) THEN Byte(Head(s)) < Byte(Head(o))
  ELSE StrLess(Tail(s), Tail(o))

\* strings.TrimLeft(s, "v"): every leading "v" is removed
RECURSIVE TrimLeftV(_)
TrimLeftV(s) ==
  IF s # <<>> /\ Head(s) = "v" THEN TrimLeftV(Tail(s)) ELSE s

\* index of the first occurrence of character c in s, 0 when there is none
IndexOf(s, c) ==
  IF \E i \in 1..Len(s) : s[i] = c
  THEN CHOOSE i \in 1..Len(s) : s[i] = c /\ \A j \in 1..(i - 1) : s[j] # c
  ELSE 0

\* strings.Split(s, c) for a one-character separator
RECURSIVE Split(_, _)
Split(s, c) ==
  LET i == IndexOf(s, c)
  IN  IF i = 0 THEN <<s>>
      ELSE <<SubSeq(s, 1, i - 1)>> \o Split(SubSeq(s, i + 1, Len(s)), c)

\* path.Join on elements that are already clean: the empty elements are
\* dropped and the rest joined by "/"
RECURSIVE Join(_)
Join(elems) ==
  IF elems = <<>> THEN <<>>
  ELSE IF Head(elems) = <<>> THEN Join(Tail(elems))
  ELSE LET rest == Join(Tail(elems))
       IN  IF rest = <<>> THEN Head(elems) ELSE Head(elems) \o <<"/">> \o rest

Reverse(s) == [i \in 1..Len(s) |-> s[Len(s) + 1 - i]]

(***************************************************************************)
(* The semantic-version library the code calls (Masterminds/semver v1.5).  *)
(***************************************************************************)
IsNumber(s) == s # <<>> /\ \A i \in 1..Len(s) : s[i] \in Digits

\* strconv.ParseInt(s, 10, 64) of a string of digits
RECURSIVE ParseInt(_)
ParseInt(s) ==
  IF s = <<>> THEN 0
  ELSE 10 * ParseInt(SubSeq(s, 1, Len(s) - 1)) + (Byte(s[Len(s)]) - Byte("0"))

\* [0-9A-Za-z\-]+(\.[0-9A-Za-z\-]+)*
IsIdentList(s) ==
  LET parts == Split(s, ".")
  IN  \A i \in 1..Len(parts) :
        parts[i] # <<>> /\ \A j \in 1..Len(parts[i]) : parts[i][j] \in AlnumDash

NoVersion == [ok |-> FALSE]

\* semver.NewVersion: v?N(.N)?(.N)?(-pre)?(+metadata)?, the whole string
NewVersion(s) ==
  LET body == IF s # <<>> /\ Head(s) = "v" THEN Tail(s) ELSE s
      plus == IndexOf(body, "+")
      nometa == IF plus = 0 THEN body ELSE SubSeq(body, 1, plus - 1)
      meta == IF plus = 0 THEN <<>> ELSE SubSeq(body, plus + 1, Len(body))
      dash == IndexOf(nometa, "-")
      core == IF dash = 0 THEN nometa ELSE SubSeq(nometa, 1, dash - 1)
      pre == IF dash = 0 THEN <<>> ELSE SubSeq(nometa, dash + 1, Len(nometa))
      nums == Split(core, ".")
  IN  IF /\ Len(nums) <= 3
         /\ \A i \in 1..Len(nums) : IsNumber(nums[i])
         /\ (dash # 0 => IsIdentList(pre))
         /\ (plus # 0 => IsIdentList(meta))
      THEN [ok |-> TRUE,
            major |-> ParseInt(nums[1]),
            minor |-> IF Len(nums) >= 2 THEN ParseInt(nums[2]) ELSE 0,
            patch |-> IF Len(nums) >= 3 THEN ParseInt(nums[3]) ELSE 0,
            pre |-> pre,
            metadata |-> meta,
            original |-> s]
      ELSE NoVersion

\* comparePrePart
ComparePrePart(s, o) ==
  IF s = o THEN 0
  ELSE IF s = <<>> THEN -1
  ELSE IF o = <<>> THEN 1
  ELSE IF ~IsNumber(s) /\ ~IsNumber(o) THEN (IF StrLess(o, s) THEN 1 ELSE -1)
  ELSE IF ~IsNumber(o) THEN -1
  ELSE IF ~IsNumber(s) THEN 1
  ELSE IF ParseInt(s) > ParseInt(o) THEN 1 ELSE -1

\* comparePrerelease
RECURSIVE ComparePreParts(_, _)
ComparePreParts(sparts, oparts) ==
  IF sparts = <<>> /\ oparts = <<>> THEN 0
  ELSE LET d == ComparePrePart(IF sparts = <<>> THEN <<>> ELSE Head(sparts),
                               IF oparts = <<>> THEN <<>> ELSE Head(oparts))
       IN  IF d # 0 THEN d
           ELSE ComparePreParts(IF sparts = <<>> THEN <<>> ELSE Tail(sparts),
                                IF oparts = <<>> THEN <<>> ELSE Tail(oparts))

CompareSegment(a, b) == IF a < b THEN -1 ELSE IF a > b THEN 1 ELSE 0

\* Version.Compare: major, minor, patch, then the pre-release (a version
\* without one is the greater); the metadata is not compared
Compare(v, o) ==
  IF CompareSegment(v.major, o.major) # 0 THEN CompareSegment(v.major, o.major)
  ELSE IF CompareSegment(v.minor, o.minor) # 0 THEN CompareSegment(v.minor, o.minor)
  ELSE IF CompareSegment(v.patch, o.patch) # 0 THEN CompareSegment(v.patch, o.patch)
  ELSE IF v.pre = <<>> /\ o.pre = <<>> THEN 0
  ELSE IF v.pre = <<>> THEN 1
  ELSE IF o.pre = <<>> THEN -1
  ELSE ComparePreParts(Split(v.pre, "."), Split(o.pre, "."))

(***************************************************************************)
(* Constraints.  The model covers the constraints made of one comparison:  *)
(* an optional operator followed by a version without wildcards.           *)
(***************************************************************************)
OpChars == {"=", "!", ">", "<", "~", "^"}

ConstraintOps == {<<>>, <<"=">>, <<"~">>, <<"^">>, <<">">>, <<">", "=">>}

\* the length of the longest prefix of s made of operator characters
RECURSIVE OpLen(_)
OpLen(s) == IF s # <<>> /\ Head(s) \in OpChars THEN 1 + OpLen(Tail(s)) ELSE 0

NoConstraint == [ok |-> FALSE]

\* semver.NewConstraint (parseConstraint): the operator, the version it is
\* compared with, and whether the minor segment was left out
NewConstraint(c) ==
  LET n == OpLen(c)
      op == SubSeq(c, 1, n)
      ver == SubSeq(c, n + 1, Len(c))
      con == NewVersion(ver)
      body == IF ver # <<>> /\ Head(ver) = "v" THEN Tail(ver) ELSE ver
      core == IF IndexOf(body, "-") = 0 THEN body
              ELSE SubSeq(body, 1, IndexOf(body, "-") - 1)
  IN  IF op \in ConstraintOps /\ con.ok
      THEN [ok |-> TRUE, op |-> op, con |-> con,
            minorDirty |-> IndexOf(core, ".") = 0]
      ELSE NoConstraint

\* constraintTilde
ConstraintTilde(v, c) ==
  IF v.pre # <<>> /\ c.con.pre = <<>> THEN FALSE
  ELSE IF Compare(v, c.con) < 0 THEN FALSE
  ELSE IF c.con.major = 0 /\ c.con.minor = 0 /\ c.con.patch = 0 /\ ~c.minorDirty
       THEN TRUE
  ELSE IF v.major # c.con.major THEN FALSE
  ELSE IF v.minor # c.con.minor /\ ~c.minorDirty THEN FALSE
  ELSE TRUE

\* constraintCaret
ConstraintCaret(v, c) ==
  IF v.pre # <<>> /\ c.con.pre = <<>> THEN FALSE
  ELSE IF Compare(v, c.con) < 0 THEN FALSE
  ELSE v.major = c.con.major

\* constraintTildeOrEqual, the function of "" and "="
ConstraintTildeOrEqual(v, c) ==
  IF v.pre # <<>> /\ c.con.pre = <<>> THEN FALSE
  ELSE IF c.minorDirty THEN ConstraintTilde(v, c)
  ELSE Compare(v, c.con) = 0

\* constraintGreaterThan and constraintGreaterThanEqual
ConstraintGreater(v, c, orEqual) ==
  IF v.pre # <<>> /\ c.con.pre = <<>> THEN FALSE
  ELSE IF orEqual THEN Compare(v, c.con) >= 0 ELSE Compare(v, c.con) = 1

\* Constraints.Check
Check(c, v) ==
  IF c.op = <<"~">> THEN ConstraintTilde(v, c)
  ELSE IF c.op = <<"^">> THEN ConstraintCaret(v, c)
  ELSE IF c.op = <<">">> THEN ConstraintGreater(v, c, FALSE)
  ELSE IF c.op = <<">", "=">> THEN ConstraintGreater(v, c, TRUE)
  ELSE ConstraintTildeOrEqual(v, c)

(***************************************************************************)
(* Errors: a Go error is the chain of messages xerrors.Errorf wraps, the   *)
(* outermost first; the nil error is the empty chain.                      *)
(***************************************************************************)
Nil == <<>>

ErrListGithub == "Unable to list Github releases"
ErrConstraint == "Invalid sematic version constraint"
ErrVersion == "Invalid sematic version"
ErrMkdir == "Unable to create temporary folder"
ErrDownload == "Unable to download file"
ErrListDir == "Unable to list releases"

\* a nil-pointer dereference: the call does not return
Panic == <<"panic: nil pointer dereference">>

\* VersionsImpl.InRange
InRange(version, constraint) ==
  LET c == NewConstraint(constraint)
      ver == NewVersion(version)
  IN  IF ~c.ok THEN [valid |-> FALSE, err |-> <<ErrConstraint, "improper constraint">>]
      ELSE IF ~ver.ok THEN [valid |-> FALSE, err |-> <<ErrVersion, "Invalid Semantic Version">>]
      ELSE [valid |-> Check(c, ver), err |-> Nil]

(***************************************************************************)
(* Options and the naming functions the caller supplies.                   *)
(***************************************************************************)
BaseName == <<"f", "a", "k", "e", "-", "s", "e", "r", "v", "i", "c", "e">>

Linux == <<"l", "i", "n", "u", "x">>
Darwin == <<"d", "a", "r", "w", "i", "n">>
Windows == <<"w", "i", "n", "d", "o", "w", "s">>
Fake == <<"f", "a", "k", "e">>
X64 == <<"x", "6", "4">>

\* the naming function of the tests: the name depends on the OS alone, and
\* is empty for an OS it does not know
nf(ver, goos, goarch) ==
  IF goos = Darwin THEN BaseName \o <<"-", "o", "s", "x">>
  ELSE IF goos = Linux THEN BaseName \o <<"-">> \o Linux
  ELSE IF goos = Windows THEN BaseName \o <<".", "e", "x", "e">>
  ELSE <<>>

\* a naming function that puts the version in the name, as release tools do
nfVersioned(ver, goos, goarch) ==
  IF goos = Linux THEN BaseName \o <<"-">> \o ver \o <<"-">> \o Linux
  ELSE <<>>

NameFuncs == {"nf", "nfVersioned"}

\* Options.AssetNameFunc(ver, GOOS, GOARCH)
AssetNameFunc(o, ver) ==
  IF o.AssetNameFunc = "nf" THEN nf(ver, o.GOOS, o.GOARCH)
  ELSE nfVersioned(ver, o.GOOS, o.GOARCH)

\* Options.ExeNameFunc(ver, GOOS, GOARCH)
ExeNameFunc(o, ver) ==
  IF o.ExeNameFunc = "nf" THEN nf(ver, o.GOOS, o.GOARCH)
  ELSE nfVersioned(ver, o.GOOS, o.GOARCH)

ReleasesPath == <<"/", "d", "l">>

\* the Options of New: the OS is one nf knows or one it does not
OptionsSet ==
  [GOOS : {Linux, Fake}, GOARCH : {X64},
   AssetNameFunc : NameFuncs, ExeNameFunc : NameFuncs,
   ReleasesPath : {ReleasesPath}]

(***************************************************************************)
(* The releases the release lister returns.                                *)
(***************************************************************************)
V100 == <<"v", "1", ".", "0", ".", "0">>
N100 == <<"1", ".", "0", ".", "0">>
V120 == <<"v", "1", ".", "2", ".", "0">>
V200Beta == <<"v", "2", ".", "0", ".", "0", "-", "b", "e", "t", "a">>
TLatest == <<"l", "a", "t", "e", "s", "t">>

VV100 == <<"v", "v", "1", ".", "0", ".", "0">>

\* release tags: two versions, and one tag that is no version
TagPool == {V100, V120, TLatest}

\* names of the entries of the releases directory: two of equal precedence,
\* and two that are no versions
EntryPool == {V100, N100, V120, TLatest, VV100}

\* keys of the maps handed to SortMapKeys: two of equal precedence, a
\* pre-release, and one that is no version
KeyPool == {V100, N100, V120, V200Beta, TLatest}

NameLinux == BaseName \o <<"-">> \o Linux
NameLinuxUpper ==
  <<"F", "a", "k", "e", "-", "S", "e", "r", "v", "i", "c", "e", "-",
    "L", "I", "N", "U", "X">>
NameLinux100 == BaseName \o <<"-", "1", ".", "0", ".", "0", "-">> \o Linux
NameSource == <<"s", "r", "c", ".", "z", "i", "p">>

\* the asset lists of a release, as lists of asset names
AssetNamePool ==
  {<<>>, <<NameSource, NameLinuxUpper, NameLinux>>, <<NameLinux100>>}

\* the browser download URL of an asset
DownloadURL(tag, name) ==
  <<"h", ":", "/">> \o tag \o <<"/">> \o name

Release(tag, names) ==
  [TagName |-> tag,
   Assets |-> [i \in 1..Len(names) |->
                 [Name |-> names[i],
                  BrowserDownloadURL |-> DownloadURL(tag, names[i])]]]

ReleasePool == {Release(t, a) : t \in TagPool, a \in AssetNamePool}

SeqsUpTo(S, n) == UNION {[1..k -> S] : k \in 0..n}

(***************************************************************************)
(* Maps.  A Go map is a function; a nil map is told apart from an empty    *)
(* one by the record that carries it.                                      *)
(***************************************************************************)
EmptyMap == <<>>

MapPut(m, k, val) ==
  [x \in (DOMAIN m) \cup {k} |-> IF x = k THEN val ELSE m[x]]

(***************************************************************************)
(* ListReleases.                                                           *)
(***************************************************************************)
\* a comparison that minds the case
AssetMatchesExact(name, fn) == name = fn

\* strings.ToLower(*a.Name) == strings.ToLower(fn)
AssetMatches(name, fn) == ToLower(name) = ToLower(fn)

\* the scan of a release's assets: the index of the first asset with the
\* name the naming function returns, 0 when there is none
FirstMatch(assets, o, tagName) ==
  LET fn == AssetNameFunc(o, TrimLeftV(tagName))
      hits == {i \in 1..Len(assets) : AssetMatches(assets[i].Name, fn)}
  IN  IF hits = {} THEN 0 ELSE CHOOSE i \in hits : \A j \in hits : i <= j

\* the loop over the releases from index i on, tags being the map so far
RECURSIVE ListReleasesLoop(_, _, _, _, _)
ListReleasesLoop(gr, i, tags, constraint, o) ==
  IF i > Len(gr) THEN [tags |-> tags, isNil |-> FALSE, err |-> Nil]
  ELSE
    LET g == gr[i]
        r == IF constraint # <<>> THEN InRange(g.TagName, constraint)
             ELSE [valid |-> TRUE, err |-> Nil]
        a == FirstMatch(g.Assets, o, g.TagName)
    IN  IF r.err # Nil
        THEN [tags |-> EmptyMap, isNil |-> TRUE, err |-> <<ErrConstraint>> \o r.err]
        ELSE IF ~r.valid THEN ListReleasesLoop(gr, i + 1, tags, constraint, o)
        ELSE IF a = 0 THEN ListReleasesLoop(gr, i + 1, tags, constraint, o)
        ELSE ListReleasesLoop(gr, i + 1,
               MapPut(tags, g.TagName, g.Assets[a].BrowserDownloadURL),
               constraint, o)

\* a call of a naming function for a tag: the tag as it is written, and the
\* version the function is passed, tag := strings.TrimLeft(tag, "v")
NameCall(tagName) == [tag |-> tagName, ver |-> TrimLeftV(tagName)]

\* the calls of AssetNameFunc the loop makes from release i on: one for
\* every asset scanned of a release that passed the constraint
RECURSIVE ListReleasesNamed(_, _, _)
ListReleasesNamed(gr, i, constraint) ==
  IF i > Len(gr) THEN {}
  ELSE
    LET g == gr[i]
        r == IF constraint # <<>> THEN InRange(g.TagName, constraint)
             ELSE [valid |-> TRUE, err |-> Nil]
    IN  IF r.err # Nil THEN {}
        ELSE IF ~r.valid \/ g.Assets = <<>>
        THEN ListReleasesNamed(gr, i + 1, constraint)
        ELSE {NameCall(g.TagName)} \cup ListReleasesNamed(gr, i + 1, constraint)

\* VersionsImpl.ListReleases, given what the release lister answered
ListReleases(listed, constraint, o) ==
  IF ~listed.ok
  THEN [tags |-> EmptyMap, isNil |-> TRUE, err |-> <<ErrListGithub, "list error">>]
  ELSE ListReleasesLoop(listed.gr, 1, EmptyMap, constraint, o)

(***************************************************************************)
(* SortMapKeys and the selection of the latest version.                    *)
(***************************************************************************)
Perms(S) ==
  {f \in [1..Cardinality(S) -> S] : \A i, j \in 1..Cardinality(S) : f[i] = f[j] => i = j}

\* the orders sort.Sort(semver.Collection(vs)) can leave the versions of the
\* keys in: the map is ranged over in an order Go does not fix, so versions
\* that compare equal come out in either order
SortedCollections(keys) ==
  {[i \in 1..Len(p) |-> NewVersion(p[i])] : p \in
     {q \in Perms(keys) :
        \A i \in 1..(Len(q) - 1) : Compare(NewVersion(q[i]), NewVersion(q[i + 1])) <= 0}}

\* a return that takes the ascending branch whatever the direction asked
OriginalsAscending(vs, decending) == [i \in 1..Len(vs) |-> vs[i].original]

\* the strings a sorted collection is returned as: Version.Original()
Originals(vs, decending) ==
  LET versions == [i \in 1..Len(vs) |-> vs[i].original]
  IN  IF decending THEN Reverse(versions) ELSE versions

\* VersionsImpl.SortMapKeys: the outcomes of a call.  The error of NewVersion
\* is dropped and its nil *Version appended, so a key that does not parse
\* ends the call in a nil-pointer dereference.
SortMapKeys(m, decending) ==
  IF \E k \in DOMAIN m : ~NewVersion(k).ok
  THEN {[panic |-> TRUE, versions |-> <<>>]}
  ELSE {[panic |-> FALSE, versions |-> Originals(vs, decending)] :
          vs \in SortedCollections(DOMAIN m)}

\* the tail of GetLatestReleaseURL and of GetInstalledVersion: the outcomes
\* (tag, location, error) for the catalog a listing returned
SelectLatest(listing) ==
  LET none == [assets |-> listing.tags, isNil |-> listing.isNil,
               tag |-> <<>>, loc |-> <<>>, err |-> Nil]
  IN  IF listing.err # Nil THEN {[none EXCEPT !.err = listing.err]}
      ELSE {IF s.panic THEN [none EXCEPT !.err = Panic]
            ELSE IF Len(s.versions) = 0 THEN none
            ELSE [none EXCEPT !.tag = s.versions[Len(s.versions)],
                              !.loc = listing.tags[s.versions[Len(s.versions)]]] :
              s \in SortMapKeys(listing.tags, FALSE)}

\* VersionsImpl.GetLatestReleaseURL
GetLatestReleaseURL(listed, constraint, o) ==
  SelectLatest(ListReleases(listed, constraint, o))

(***************************************************************************)
(* ListInstalledVersions and GetInstalledVersion.                          *)
(***************************************************************************)
\* ioutil.ReadDir: the entries sorted by name
ReadDir(names) ==
  CHOOSE q \in Perms(names) : \A i \in 1..(Len(q) - 1) : StrLess(q[i], q[i + 1])

\* the loop over the directory entries from index i on
RECURSIVE ListInstalledLoop(_, _, _, _, _)
ListInstalledLoop(files, i, versions, constraint, o) ==
  IF i > Len(files) THEN [tags |-> versions, isNil |-> FALSE, err |-> Nil]
  ELSE
    LET name == files[i]
        r == IF constraint # <<>> THEN InRange(name, constraint)
             ELSE [valid |-> TRUE, err |-> Nil]
        tag == TrimLeftV(name)
    IN  IF r.err # Nil \/ ~r.valid
        THEN ListInstalledLoop(files, i + 1, versions, constraint, o)
        ELSE ListInstalledLoop(files, i + 1,
               MapPut(versions, name,
                      Join(<<o.ReleasesPath, name, ExeNameFunc(o, tag)>>)),
               constraint, o)

\* the calls of ExeNameFunc the loop makes: one for every entry that
\* passed the constraint
ListInstalledNamed(files, constraint) ==
  {NameCall(files[i]) : i \in
     {j \in 1..Len(files) :
        \/ constraint = <<>>
        \/ LET r == InRange(files[j], constraint) IN r.err = Nil /\ r.valid}}

\* VersionsImpl.ListInstalledVersions, given what reading the directory gave
ListInstalledVersions(dir, constraint, o) ==
  IF ~dir.ok
  THEN [tags |-> EmptyMap, isNil |-> TRUE, err |-> <<ErrListDir, "list error">>]
  ELSE ListInstalledLoop(dir.files, 1, EmptyMap, constraint, o)

\* VersionsImpl.GetInstalledVersion
GetInstalledVersion(dir, constraint, o) ==
  SelectLatest(ListInstalledVersions(dir, constraint, o))

(***************************************************************************)
(* DownloadRelease.                                                        *)
(***************************************************************************)
\* dir := path.Join(v.options.ReleasesPath, tag)
DownloadDir(o, tag) == Join(<<o.ReleasesPath, tag>>)

\* fp := path.Join(dir, ExeNameFunc(strings.TrimLeft(tag, "v"), GOOS, GOARCH))
DownloadPath(o, tag) ==
  Join(<<DownloadDir(o, tag), ExeNameFunc(o, TrimLeftV(tag))>>)

\* a call that goes on to the fetcher whatever os.MkdirAll answered
AfterMkdirAllUnchecked(ok) == "GetAny"

\* where the call goes after os.MkdirAll: on to the fetcher, or back
AfterMkdirAll(ok) == IF ok THEN "GetAny" ELSE "idle"

\* what DownloadRelease returns after os.MkdirAll failed
MkdirAllFailed == [loc |-> <<>>, err |-> <<ErrMkdir, "mkdir error">>]

\* what DownloadRelease returns after getter.GetAny
AfterGetAny(o, tag, ok) ==
  IF ok THEN [loc |-> DownloadPath(o, tag), err |-> Nil]
  ELSE [loc |-> <<>>, err |-> <<ErrDownload, "fetch error">>]

(***************************************************************************)
(* The state.                                                              *)
(***************************************************************************)
VARIABLES
  options,    \* the Options of the VersionsImpl, fixed by New
  releases,   \* the releases of the repository at the provider
  entries,    \* the names of the entries of the releases directory
  sortIn,     \* the map a caller hands to SortMapKeys
  sorted,     \* what SortMapKeys returned for sortIn, per direction
  pc,         \* where the DownloadRelease call in progress stands
  dl,         \* the DownloadRelease call in progress, or the last one
  events,     \* what the last DownloadRelease call did, in order
  ret         \* what the last call returned

vars == <<options, releases, entries, sortIn, sorted, pc, dl, events, ret>>

\* constraints a caller passes: none, two valid ones, and one that is
\* no range expression
Tilde100 == <<"~", "1", ".", "0", ".", "0">>
Caret100 == <<"^", "v", "1", ".", "0", ".", "0">>
Abd == <<"a", "b", "d">>

ConstraintPool == {<<>>, Tilde100, Caret100, Abd}

NoRet ==
  [op |-> "none", constraint |-> <<>>, ok |-> TRUE, tags |-> EmptyMap,
   isNil |-> FALSE, tag |-> <<>>, loc |-> <<>>, err |-> Nil, named |-> {}]

NoDownload ==
  [tag |-> <<>>, url |-> <<>>, dir |-> <<>>, mkdirOk |-> FALSE,
   fetchOk |-> FALSE, placed |-> <<>>]

NotSorted == [called |-> FALSE, panic |-> FALSE, versions |-> <<>>]

\* the state all specifications start from, but for what each one varies
Quiet ==
  /\ pc = "idle"
  /\ dl = NoDownload
  /\ events = <<>>
  /\ ret = NoRet
  /\ sorted = [asc |-> NotSorted, desc |-> NotSorted]

(***************************************************************************)
(* The remote calls.                                                       *)
(***************************************************************************)
InitRemote ==
  /\ Quiet
  /\ options \in {o \in OptionsSet : o.ExeNameFunc = "nf"}
  /\ releases \in SeqsUpTo(ReleasePool, MaxReleases)
  /\ entries = {}
  /\ sortIn = EmptyMap

\* what client.Repositories.ListReleases answers
Listed(ok) == [ok |-> ok, gr |-> releases]

CallListReleases(constraint, ok) ==
  /\ pc = "idle"
  /\ LET r == ListReleases(Listed(ok), constraint, options)
     IN  ret' = [op |-> "ListReleases", constraint |-> constraint, ok |-> ok,
                 tags |-> r.tags, isNil |-> r.isNil, tag |-> <<>>, loc |-> <<>>,
                 err |-> r.err,
                 named |-> IF ok THEN ListReleasesNamed(releases, 1, constraint) ELSE {}]
  /\ UNCHANGED <<options, releases, entries, sortIn, sorted, pc, dl, events>>

CallGetLatestReleaseURL(constraint, ok) ==
  /\ pc = "idle"
  /\ \E r \in GetLatestReleaseURL(Listed(ok), constraint, options) :
       ret' = [op |-> "GetLatestReleaseURL", constraint |-> constraint, ok |-> ok,
               tags |-> r.assets, isNil |-> r.isNil, tag |-> r.tag, loc |-> r.loc,
               err |-> r.err,
               named |-> IF ok THEN ListReleasesNamed(releases, 1, constraint) ELSE {}]
  /\ UNCHANGED <<options, releases, entries, sortIn, sorted, pc, dl, events>>

NextRemote ==
  \/ \E c \in ConstraintPool, ok \in BOOLEAN : CallListReleases(c, ok)
  \/ \E c \in ConstraintPool, ok \in BOOLEAN : CallGetLatestReleaseURL(c, ok)

SpecRemote == InitRemote /\ [][NextRemote]_vars

(***************************************************************************)
(* The calls on the releases directory.                                    *)
(***************************************************************************)
InitInstalled ==
  /\ Quiet
  /\ options \in {o \in OptionsSet : o.AssetNameFunc = "nf"}
  /\ releases = <<>>
  /\ entries \in {S \in SUBSET EntryPool : Cardinality(S) <= MaxEntries}
  /\ sortIn = EmptyMap

\* what ioutil.ReadDir(ReleasesPath) answers
Dir(ok) == [ok |-> ok, files |-> ReadDir(entries)]

CallListInstalledVersions(constraint, ok) ==
  /\ pc = "idle"
  /\ LET r == ListInstalledVersions(Dir(ok), constraint, options)
     IN  ret' = [op |-> "ListInstalledVersions", constraint |-> constraint,
                 ok |-> ok, tags |-> r.tags, isNil |-> r.isNil, tag |-> <<>>,
                 loc |-> <<>>, err |-> r.err,
                 named |-> IF ok THEN ListInstalledNamed(ReadDir(entries), constraint) ELSE {}]
  /\ UNCHANGED <<options, releases, entries, sortIn, sorted, pc, dl, events>>

CallGetInstalledVersion(constraint, ok) ==
  /\ pc = "idle"
  /\ \E r \in GetInstalledVersion(Dir(ok), constraint, options) :
       ret' = [op |-> "GetInstalledVersion", constraint |-> constraint, ok |-> ok,
               tags |-> r.assets, isNil |-> r.isNil, tag |-> r.tag, loc |-> r.loc,
               err |-> r.err,
               named |-> IF ok THEN ListInstalledNamed(ReadDir(entries), constraint) ELSE {}]
  /\ UNCHANGED <<options, releases, entries, sortIn, sorted, pc, dl, events>>

\* tags and URLs a caller passes to DownloadRelease
DownloadTags == {V100, V120, TLatest, VV100}
DownloadURLs == {DownloadURL(V100, NameLinux)}

\* the names the fetcher may leave its file under in the directory: the
\* executable name the caller expects, or the one of the archive
PlacedNames(o, tag) == {ExeNameFunc(o, TrimLeftV(tag)), NameSource}

\* DownloadRelease up to os.MkdirAll, which makes the directory or fails
DownloadMkdirAll(tag, url, ok) ==
  /\ pc = "idle"
  /\ Cardinality(entries \cup {tag}) <= MaxEntries
  /\ dl' = [tag |-> tag, url |-> url, dir |-> DownloadDir(options, tag),
            mkdirOk |-> ok, fetchOk |-> FALSE, placed |-> <<>>]
  /\ pc' = AfterMkdirAll(ok)
  /\ entries' = IF ok THEN entries \cup {tag} ELSE entries
  /\ IF pc' = "idle"
     THEN /\ events' = <<"MkdirAll", "return">>
          /\ ret' = [op |-> "DownloadRelease", constraint |-> <<>>, ok |-> ok,
                     tags |-> EmptyMap, isNil |-> FALSE, tag |-> tag,
                     loc |-> MkdirAllFailed.loc, err |-> MkdirAllFailed.err,
                     named |-> {}]
     ELSE /\ events' = <<"MkdirAll">>
          /\ UNCHANGED ret
  /\ UNCHANGED <<options, releases, sortIn, sorted>>

\* DownloadRelease from the computation of the path on: getter.GetAny, which
\* fetches into the directory or fails, and the return
DownloadGetAny(ok) ==
  /\ pc = "GetAny"
  /\ \E name \in PlacedNames(options, dl.tag) :
       dl' = [dl EXCEPT !.fetchOk = ok,
                        !.placed = IF ok THEN Join(<<dl.dir, name>>) ELSE <<>>]
  /\ pc' = "idle"
  /\ events' = events \o <<"GetAny", "return">>
  /\ LET r == AfterGetAny(options, dl.tag, ok)
     IN  ret' = [op |-> "DownloadRelease", constraint |-> <<>>, ok |-> ok,
                 tags |-> EmptyMap, isNil |-> FALSE, tag |-> dl.tag,
                 loc |-> r.loc, err |-> r.err, named |-> {NameCall(dl.tag)}]
  /\ UNCHANGED <<options, releases, entries, sortIn, sorted>>

NextInstalled ==
  \/ \E c \in ConstraintPool, ok \in BOOLEAN : CallListInstalledVersions(c, ok)
  \/ \E c \in ConstraintPool, ok \in BOOLEAN : CallGetInstalledVersion(c, ok)

SpecInstalled == InitInstalled /\ [][NextInstalled]_vars

NextDownload ==
  \/ \E t \in DownloadTags, u \in DownloadURLs, ok \in BOOLEAN :
       DownloadMkdirAll(t, u, ok)
  \/ \E ok \in BOOLEAN : DownloadGetAny(ok)

SpecDownload == InitInstalled /\ [][NextDownload]_vars

(***************************************************************************)
(* The calls of SortMapKeys.                                               *)
(***************************************************************************)
InitSort ==
  /\ Quiet
  /\ options \in {o \in OptionsSet : o.AssetNameFunc = "nf" /\ o.ExeNameFunc = "nf"}
  /\ releases = <<>>
  /\ entries = {}
  /\ sortIn \in UNION {[K -> {DownloadURL(V100, NameLinux)}] :
                         K \in {S \in SUBSET KeyPool : Cardinality(S) <= MaxKeys}}

CallSortMapKeys(decending) ==
  /\ \E r \in SortMapKeys(sortIn, decending) :
       LET res == [called |-> TRUE, panic |-> r.panic, versions |-> r.versions]
       IN  sorted' = IF decending THEN [sorted EXCEPT !.desc = res]
                     ELSE [sorted EXCEPT !.asc = res]
  /\ UNCHANGED <<options, releases, entries, sortIn, pc, dl, events, ret>>

NextSort == \E d \in BOOLEAN : CallSortMapKeys(d)

SpecSort == InitSort /\ [][NextSort]_vars

(***************************************************************************)
(* Properties.                                                             *)
(***************************************************************************)
Parses(tag) == NewVersion(tag).ok

ValidConstraint(c) == c # <<>> /\ NewConstraint(c).ok

InvalidConstraint(c) == c # <<>> /\ ~NewConstraint(c).ok

\* a tag satisfies a constraint; the empty constraint asks nothing
Satisfies(tag, c) == c = <<>> \/ (Parses(tag) /\ Check(NewConstraint(c), NewVersion(tag)))

\* two names are equal but for the case of their letters
EqualFold(a, b) ==
  /\ Len(a) = Len(b)
  /\ \A i \in 1..Len(a) :
       \/ a[i] = b[i]
       \/ /\ a[i] \in UpperCase /\ b[i] \in LowerCase
          /\ ByteOf[a[i]] - ByteOf["A"] = ByteOf[b[i]] - ByteOf["a"]
       \/ /\ b[i] \in UpperCase /\ a[i] \in LowerCase
          /\ ByteOf[b[i]] - ByteOf["A"] = ByteOf[a[i]] - ByteOf["a"]

\* the name the naming function returns for the version of a release
ExpectedAsset(g) == AssetNameFunc(options, TrimLeftV(g.TagName))

\* the assets of a release that carry the expected name
Carriers(g) == {i \in 1..Len(g.Assets) : EqualFold(g.Assets[i].Name, ExpectedAsset(g))}

ReleaseSet == {releases[i] : i \in 1..Len(releases)}

ListReleasesReturned == ret.op = "ListReleases" /\ ret.ok

\* C1: a release whose tag is no semantic version does not make ListReleases
\* fail under a valid constraint: it is left out of the catalog and the
\* releases that satisfy the constraint and carry the asset are in it.
CE_C1 ==
  (/\ ListReleasesReturned
   /\ ValidConstraint(ret.constraint)
   /\ \E g \in ReleaseSet : ~Parses(g.TagName))
  => /\ ret.err = Nil
     /\ \A g \in ReleaseSet :
          /\ ~Parses(g.TagName) => g.TagName \notin DOMAIN ret.tags
          /\ (Parses(g.TagName) /\ Satisfies(g.TagName, ret.constraint)
                /\ Carriers(g) # {}) => g.TagName \in DOMAIN ret.tags

\* C2: under a constraint that is no range expression ListReleases returns
\* an InvalidConstraint error and no catalog, whatever the releases are,
\* the empty list included.
CE_C2 ==
  (ListReleasesReturned /\ InvalidConstraint(ret.constraint))
  => /\ ret.err # Nil
     /\ Head(ret.err) = ErrConstraint
     /\ ret.isNil

DistinctTags == \A i, j \in 1..Len(releases) : releases[i].TagName = releases[j].TagName => i = j

AllParse == \A g \in ReleaseSet : Parses(g.TagName)

\* the tags the catalog of ListReleases is to have
Wanted == {g \in ReleaseSet : Satisfies(g.TagName, ret.constraint) /\ Carriers(g) # {}}

FirstCarrier(g) == CHOOSE i \in Carriers(g) : \A j \in Carriers(g) : i <= j

\* C3: when the tags are distinct and all parse, and the constraint is valid
\* or empty, the catalog of ListReleases has exactly the tags of the releases
\* that satisfy the constraint and carry an asset of the expected name, the
\* case of letters apart, each with the URL of the first such asset.
THM_C3 ==
  (/\ ListReleasesReturned
   /\ DistinctTags
   /\ AllParse
   /\ ret.constraint = <<>> \/ ValidConstraint(ret.constraint))
  => /\ ret.err = Nil
     /\ DOMAIN ret.tags = {g.TagName : g \in Wanted}
     /\ \A g \in Wanted :
          ret.tags[g.TagName] = g.Assets[FirstCarrier(g)].BrowserDownloadURL

\* C3's case: two releases under a valid constraint, one kept through an
\* asset that is not its first and whose name differs in case, one left out
WIT_C3 ==
  /\ ListReleasesReturned
  /\ DistinctTags
  /\ AllParse
  /\ ValidConstraint(ret.constraint)
  /\ Len(releases) = 2
  /\ Cardinality(DOMAIN ret.tags) = 1
  /\ \E g \in Wanted :
       /\ FirstCarrier(g) > 1
       /\ Cardinality(Carriers(g)) > 1
       /\ g.Assets[FirstCarrier(g)].Name # ExpectedAsset(g)
       /\ ret.tags[g.TagName] = g.Assets[FirstCarrier(g)].BrowserDownloadURL

LatestReturned ==
  /\ ret.op \in {"GetLatestReleaseURL", "GetInstalledVersion"}
  /\ ret.ok
  /\ ~ret.isNil

\* C4: for the catalog a listing produced, the selection of the latest
\* returns the empty tag, the empty location and no error when the catalog
\* is empty, and otherwise a key of the catalog that no other key exceeds in
\* precedence, with the catalog's value for it.
CE_C4 ==
  LatestReturned
  => /\ ret.err = Nil
     /\ IF DOMAIN ret.tags = {} THEN ret.tag = <<>> /\ ret.loc = <<>>
        ELSE /\ ret.tag \in DOMAIN ret.tags
             /\ ret.loc = ret.tags[ret.tag]
             /\ \A k \in DOMAIN ret.tags :
                  (Parses(k) /\ Parses(ret.tag))
                    => Compare(NewVersion(k), NewVersion(ret.tag)) <= 0

ListInstalledReturned == ret.op = "ListInstalledVersions" /\ ret.ok

\* C5: ListInstalledVersions fails with an InvalidConstraint error under a
\* constraint that is no range expression, and only skips an entry whose
\* name is no semantic version.  (Stated for a directory that has entries.)
CE_C5 ==
  (ListInstalledReturned /\ entries # {})
  => /\ InvalidConstraint(ret.constraint)
          => ret.err # Nil /\ Head(ret.err) = ErrConstraint
     /\ ValidConstraint(ret.constraint)
          => ret.err = Nil /\ \A e \in entries : ~Parses(e) => e \notin DOMAIN ret.tags

\* C6: no key of the catalog of ListReleases is a tag that is no semantic
\* version, whatever the constraint, the empty one included.
CE_C6 ==
  ListReleasesReturned => \A k \in DOMAIN ret.tags : Parses(k)

ParseableKeys == {k \in DOMAIN sortIn : Parses(k)}

Ascending(versions) ==
  \A i, j \in 1..Len(versions) :
    i < j => Compare(NewVersion(versions[i]), NewVersion(versions[j])) <= 0

IsListingOf(versions, keys) ==
  /\ Len(versions) = Cardinality(keys)
  /\ {versions[i] : i \in 1..Len(versions)} = keys

\* C7: SortMapKeys completes for every map, keys that are no semantic
\* versions included, and returns the parseable keys as they are written,
\* in ascending precedence, the other keys being dropped.
CE_C7 ==
  sorted.asc.called
  => /\ ~sorted.asc.panic
     /\ IsListingOf(sorted.asc.versions, ParseableKeys)
     /\ Ascending(sorted.asc.versions)

BothSorted ==
  /\ sorted.asc.called
  /\ sorted.desc.called
  /\ \A k \in DOMAIN sortIn : Parses(k)

NoTies ==
  \A k, l \in DOMAIN sortIn : k # l => Compare(NewVersion(k), NewVersion(l)) # 0

\* C8 as stated: for a map whose keys all parse, two of equal precedence
\* and different text included, the descending result is the exact reverse
\* of the ascending result of a separate call, and the ascending result is
\* in the order of precedence.
CE_C8 ==
  BothSorted
  => /\ sorted.desc.versions = Reverse(sorted.asc.versions)
     /\ Ascending(sorted.asc.versions)

\* C8 as amended: the descending result is the exact reverse of the
\* ascending result of a separate call when no two keys have equal
\* precedence; with or without such keys both results hold every key as
\* written, the ascending one in the order of precedence and the descending
\* one in the reverse order.
THM_C8 ==
  BothSorted
  => /\ ~sorted.asc.panic /\ ~sorted.desc.panic
     /\ IsListingOf(sorted.asc.versions, DOMAIN sortIn)
     /\ IsListingOf(sorted.desc.versions, DOMAIN sortIn)
     /\ Ascending(sorted.asc.versions)
     /\ Ascending(Reverse(sorted.desc.versions))
     /\ NoTies => sorted.desc.versions = Reverse(sorted.asc.versions)

\* C8's case: three keys of distinct precedence sorted in both directions
WIT_C8 ==
  /\ BothSorted
  /\ NoTies
  /\ Cardinality(DOMAIN sortIn) = 3
  /\ sorted.desc.versions = Reverse(sorted.asc.versions)
  /\ sorted.desc.versions # sorted.asc.versions

\* C9: when the naming function returns the empty name for the configured
\* OS, ListReleases returns the empty catalog and no error, for every list
\* of releases and every valid or empty constraint.
CE_C9 ==
  (/\ ListReleasesReturned
   /\ \A g \in ReleaseSet : ExpectedAsset(g) = <<>>
   /\ ret.constraint = <<>> \/ ValidConstraint(ret.constraint))
  => /\ ret.err = Nil
     /\ ~ret.isNil
     /\ ret.tags = EmptyMap

Count(s, e) == Cardinality({i \in 1..Len(s) : s[i] = e})

DownloadReturned == pc = "idle" /\ events # <<>>

\* C10: a DownloadRelease call makes the directory, then calls the fetcher,
\* then returns.  The fetcher is not called when the directory could not be
\* made (the call returns an error and the empty path) and is called at
\* most once; its failure is returned with the empty path and the directory
\* stays; on success the path is the join of the releases path, the tag and
\* the executable name, whether or not the fetcher left a file there.
THM_C10 ==
  /\ events \in {<<>>, <<"MkdirAll">>, <<"MkdirAll", "return">>,
                 <<"MkdirAll", "GetAny", "return">>}
  /\ Count(events, "GetAny") <= 1
  /\ pc = "GetAny" <=> events = <<"MkdirAll">>
  /\ pc = "GetAny" => dl.mkdirOk
  /\ DownloadReturned =>
       /\ ret.op = "DownloadRelease"
       /\ ret.tag = dl.tag
       /\ ~dl.mkdirOk =>
            /\ events = <<"MkdirAll", "return">>
            /\ ret.loc = <<>>
            /\ ret.err # Nil /\ Head(ret.err) = ErrMkdir
       /\ (dl.mkdirOk /\ ~dl.fetchOk) =>
            /\ events = <<"MkdirAll", "GetAny", "return">>
            /\ ret.loc = <<>>
            /\ ret.err # Nil /\ Head(ret.err) = ErrDownload
            /\ dl.tag \in entries
       /\ (dl.mkdirOk /\ dl.fetchOk) =>
            /\ events = <<"MkdirAll", "GetAny", "return">>
            /\ ret.err = Nil
            /\ ret.loc = options.ReleasesPath \o <<"/">> \o dl.tag
                           \o (IF ExeNameFunc(options, TrimLeftV(dl.tag)) = <<>> THEN <<>>
                               ELSE <<"/">> \o ExeNameFunc(options, TrimLeftV(dl.tag)))

\* C10's case: a call that made the directory and fetched, and returned a
\* path the fetcher left no file under
WIT_C10 ==
  /\ DownloadReturned
  /\ dl.mkdirOk
  /\ dl.fetchOk
  /\ events = <<"MkdirAll", "GetAny", "return">>
  /\ ret.loc # <<>>
  /\ dl.placed # ret.loc
  /\ dl.tag \in entries

\* the tag with one leading "v" removed, when it has one
TrimPrefixV(s) == IF s # <<>> /\ Head(s) = "v" THEN Tail(s) ELSE s

IsPrefix(p, s) == Len(p) <= Len(s) /\ SubSeq(s, 1, Len(p)) = p

\* the tags of the releases the lister answered with
ReleaseTags == {releases[i].TagName : i \in 1..Len(releases)}

\* the keys of a catalog are tags as they are written
KeysAreTags ==
  /\ ListReleasesReturned => DOMAIN ret.tags \subseteq ReleaseTags
  /\ ListInstalledReturned => DOMAIN ret.tags \subseteq entries

\* the directory segment of a constructed path is the tag as it is written
DirsAreTags ==
  /\ ListInstalledReturned =>
       \A k \in DOMAIN ret.tags :
         IsPrefix(options.ReleasesPath \o <<"/">> \o k, ret.tags[k])
  /\ (DownloadReturned /\ dl.mkdirOk) => dl.tag \in entries
  /\ (DownloadReturned /\ ret.loc # <<>>) =>
       IsPrefix(options.ReleasesPath \o <<"/">> \o dl.tag, ret.loc)

\* a naming function is passed the tag less its one leading "v"
NamedByPrefix == \A n \in ret.named : n.ver = TrimPrefixV(n.tag)

\* C11: in ListReleases, ListInstalledVersions and DownloadRelease the
\* catalog key and the directory segment of every constructed path are the
\* tag as it is written, its leading "v" kept, and the version passed to
\* AssetNameFunc or ExeNameFunc is that tag with only the leading "v"
\* removed, every other character unchanged.
CE_C11 ==
  (ret.op \in {"ListReleases", "ListInstalledVersions", "DownloadRelease"})
  => /\ KeysAreTags
     /\ DirsAreTags
     /\ NamedByPrefix

====
